---- MODULE Spec2Model ----
(***************************************************************************)
(* Light meshes of box2d lights (cugl::b2dlights): the dirty-flag protocol *)
(* of Light / PositionalLight / PointLight / ConeLight / DirectionalLight, *)
(* the raycast-driven mesh build and the containment query.                *)
(*                                                                         *)
(* Numbers.  Floats are modelled in fixed point:                           *)
(*   - world coordinates, ray endpoints and hit points in 1/1000 of a      *)
(*     world unit; radius and world bounds sizes in whole world units;     *)
(*   - angles (direction, cone arc) in 1/100 of a degree, so that the      *)
(*     0.01 degree floor of the cone arc is the integer 1;                 *)
(*   - hit fractions and vertex attenuation in 1/1000 (1000 is 1.0f);      *)
(*   - NaN is a separate value that every arithmetic operation propagates  *)
(*     and every comparison rejects, as IEEE-754 does;                     *)
(*   - Uninit is the content of a float slot of a fresh new float[n].      *)
(***************************************************************************)
EXTENDS Integers, Sequences, FiniteSets, TLC

(***************************************************************************)
(* Bounds of the model                                                     *)
(***************************************************************************)
\* Largest ray count handed to add*Light / setNumRays.
MaxRays == 3
\* Most setter calls and world changes between two mesh builds of the light.
MaxPending == 1
\* Capacity of the registry's flat vertex array (DEFAULT_CAPACITY of
\* RayHandler.h, scaled down from 8192).
DEFAULT_CAPACITY == 8
\* Most lights added to one registry.
MaxLights == 2

\* Ray counts the callers pass (the code takes any int): one ray, where the
\* step divisor numRays - 1 is zero, two rays, and the largest count.
NumRaysInputs == {1, 2, MaxRays}
\* Radii the callers pass, in world units (the code takes any float).
RadiusInputs == {0 - 1, 0, 2}
\* Anchor positions, in 1/1000 world units.
PosInputs == {<<0, 0>>, <<500, 0>>}
\* Directions, in 1/100 degree.
DirInputs == {0, 180 * 100}
\* Cone arcs, in 1/100 degree: below the 0.01 degree floor, and wide.
ConeInputs == {0, 90 * 100}
\* Light colours.
Colors == {"WHITE", "RED"}
\* The two copies of ConeLight.h in the repository.
Trees == {"b2d_lights_source", "box2d_lights"}

(***************************************************************************)
(* Float arithmetic in fixed point                                         *)
(***************************************************************************)
One == 10 * 100
NaN == 0 - 2^30
Uninit == 1 - 2^30

IsNum(a) == a # NaN /\ a # Uninit

FAdd(a, b) == IF a = NaN \/ b = NaN THEN NaN ELSE a + b
FSub(a, b) == IF a = NaN \/ b = NaN THEN NaN ELSE a - b
FMul(a, b) == IF a = NaN \/ b = NaN THEN NaN ELSE a * b
\* (a * num) / One, rounded down
FScale(a, num) == IF a = NaN \/ num = NaN THEN NaN ELSE (a * num) \div One
FLt(a, b) == a # NaN /\ b # NaN /\ a < b
FGe(a, b) == a # NaN /\ b # NaN /\ a >= b
FLe(a, b) == a # NaN /\ b # NaN /\ a <= b

\* sin of x hundredths of a degree, 0 <= x <= 18000, times 1000
\* (Bhaskara's rational approximation of libm's sin, exact at 0, 30, 90).
SinHalf(x) == (4 * x * (18000 - x)) \div ((405000000 - x * (18000 - x)) \div 1000)
Sin1000(a) ==
  IF a = NaN THEN NaN
  ELSE LET x == a % 36000
       IN IF x <= 18000 THEN SinHalf(x) ELSE 0 - SinHalf(x - 18000)
Cos1000(a) == IF a = NaN THEN NaN ELSE Sin1000(a + 9000)

\* new float[n]: n slots of indeterminate content
NewArray(n) == [i \in 1..n |-> Uninit]

(***************************************************************************)
(* Light                                                                   *)
(***************************************************************************)
\* LightVert
LightVert(p, c, fr) == [pos |-> p, color |-> c, frac |-> fr]

\* Light::init(pos, numRays, color), on a zero-initialised object
LightInit(k, tree, p, n, c) ==
  [ kind |-> k, tree |-> tree,
    pos |-> p, numRays |-> n, color |-> c,
    mx |-> NewArray(n), my |-> NewArray(n), f |-> NewArray(n),
    endX |-> NewArray(n), endY |-> NewArray(n),
    startX |-> <<>>, startY |-> <<>>, startCap |-> 0,
    radius |-> 0, direction |-> 0, coneDegree |-> 0,
    lightVerts |-> <<>>, lightIndx |-> <<>>,
    m_index |-> 0, dirty |-> TRUE,
    \* bookkeeping of the model: the calls made by the current operation,
    \* whether it accessed an array outside its allocation, and the dirty flag
    \* it found on entry
    log |-> <<>>, oob |-> FALSE, wasDirty |-> FALSE ]

\* PositionalLight::init and PointLight::init
PointInit(p, n, r) ==
  [LightInit("Point", "b2d_lights_source", p, n, "WHITE") EXCEPT !.radius = r]

\* ConeLight::init
ConeInit(tree, p, n, r, dir, deg) ==
  [LightInit("Cone", tree, p, n, "WHITE")
     EXCEPT !.radius = r, !.direction = dir, !.coneDegree = deg]

\* DirectionalLight::init
DirectionalInit(n, dir) ==
  [LightInit("Directional", "b2d_lights_source", <<0, 0>>, n, "WHITE")
     EXCEPT !.direction = dir,
            !.startX = NewArray(n), !.startY = NewArray(n), !.startCap = n]

isPositional(l) == l.kind \in {"Point", "Cone"}

(***************************************************************************)
(* Setters                                                                 *)
(***************************************************************************)
\* Light::setColor
setColor(l, c) == [l EXCEPT !.color = c]

\* Light::setNumRays
\* (variant: the assignment to _dirty is left out)
setNumRays_KeepsFlag(l, num) ==
  [l EXCEPT !.numRays = num,
            !.mx = NewArray(num), !.my = NewArray(num), !.f = NewArray(num),
            !.endX = NewArray(num), !.endY = NewArray(num)]
setNumRays(l, num) ==
  [l EXCEPT !.numRays = num,
            !.mx = NewArray(num), !.my = NewArray(num), !.f = NewArray(num),
            !.endX = NewArray(num), !.endY = NewArray(num),
            !.dirty = TRUE]

\* Light::setPosition(x, y), Light::setX, Light::setY (the body is null)
setPosition(l, x, y) == [l EXCEPT !.pos = <<x, y>>]
setX(l, value) == [l EXCEPT !.pos = <<value, l.pos[2]>>]
setY(l, value) == [l EXCEPT !.pos = <<l.pos[1], value>>]

\* PositionalLight::setRadius
\* (variant: the assignment to _dirty is left out)
setRadius_KeepsFlag(l, r) == [l EXCEPT !.radius = r]
setRadius(l, r) == [l EXCEPT !.radius = r, !.dirty = TRUE]

\* ConeLight::setDirection
setDirection(l, dir) == [l EXCEPT !.direction = dir, !.dirty = TRUE]

\* ConeLight::setConeDegree, in the two copies of ConeLight.h
setConeDegree(l, deg) ==
  IF l.tree = "box2d_lights"
  THEN [l EXCEPT !.direction = IF deg > 1 THEN deg ELSE 1, !.dirty = TRUE]
  ELSE [l EXCEPT !.coneDegree = IF deg > 1 THEN deg ELSE 1, !.dirty = TRUE]

getConeDegree(l) == l.coneDegree
getDirection(l) == l.direction

(***************************************************************************)
(* The world: the geometry query port                                      *)
(***************************************************************************)
\* Fractions at which a ray can be obstructed, in 1/1000 of its length.
Fracs == {One \div 4, One \div 2}
\* What the port finds on one ray, in the order it visits the obstacles: none,
\* one, or two in either order.
CandInputs == {<<>>, <<One \div 2>>, <<One \div 4, One \div 2>>, <<One \div 2, One \div 4>>}
\* World bounds: origin in 1/1000 world units, size in world units.
BoundsInputs == {[x |-> 0, y |-> 0, w |-> 4, h |-> 2]}
\* Which rays of a light the obstacles of a world snapshot stand in: none,
\* the odd ones.
Profiles == {"clear", "odd"}
\* A world snapshot: its bounds, where its obstacles stand, and what the port
\* finds on an obstructed ray.
Worlds ==
  {w \in [bounds : BoundsInputs, profile : Profiles, cands : CandInputs] :
     (w.profile = "clear") <=> (w.cands = <<>>)}

\* Light::ray, the raycast callback: records the candidate in slot m_index
\* (and returns fraction)
ray(l, point, fraction) ==
  [l EXCEPT !.mx[l.m_index + 1] = point[1],
            !.my[l.m_index + 1] = point[2],
            !.f[l.m_index + 1] = fraction]

\* the point the port reports for a candidate at the given fraction
HitPoint(p1, p2, fraction) ==
  << FAdd(p1[1], FScale(FSub(p2[1], p1[1]), fraction)),
     FAdd(p1[2], FScale(FSub(p2[2], p1[2]), fraction)) >>

\* the port's walk over the obstacles of one ray: a candidate beyond
\* maxFraction is not reported; for a reported one the callback is called and
\* the ray is clipped to the fraction it returns
RECURSIVE rayCastFrom(_, _, _, _, _)
rayCastFrom(l, p1, p2, cands, maxFraction) ==
  IF cands = <<>> THEN l
  ELSE IF Head(cands) > maxFraction
       THEN rayCastFrom(l, p1, p2, Tail(cands), maxFraction)
       ELSE rayCastFrom(ray(l, HitPoint(p1, p2, Head(cands)), Head(cands)),
                        p1, p2, Tail(cands), Head(cands))

\* ObstacleWorld::rayCast(ray, p1, p2)
\* (variant: the callback is called for every obstacle on the ray, clipped or
\* not)
RECURSIVE rayCast_NoClip(_, _, _, _)
rayCast_NoClip(l, p1, p2, cands) ==
  IF cands = <<>> THEN l
  ELSE rayCast_NoClip(ray(l, HitPoint(p1, p2, Head(cands)), Head(cands)),
                      p1, p2, Tail(cands))
rayCast(l, p1, p2, cands) == rayCastFrom(l, p1, p2, cands, One)

\* the candidates of the i-th ray (0-based) in world w
Cands(w, i) ==
  IF w.profile = "odd" /\ i % 2 = 1 THEN w.cands ELSE <<>>

(***************************************************************************)
(* Endpoints                                                               *)
(***************************************************************************)
\* ray i of a point light: angleNum * i, angleNum = 360.0f / (numRays - 1.0f)
PointAngle(l, i) ==
  IF l.numRays = 1 THEN NaN ELSE (36000 \div (l.numRays - 1)) * i

\* ray i of a cone light
ConeAngle(l, i) ==
  IF l.numRays = 1 THEN NaN
  ELSE l.direction + (l.coneDegree \div 2) - ((l.coneDegree * i) \div (l.numRays - 1))

RayAngle(l, i) == IF l.kind = "Point" THEN PointAngle(l, i) ELSE ConeAngle(l, i)

\* PointLight::calculateEndpoints and ConeLight::calculateEndpoints
\* (variant: _endY is filled with the cosine as well)
PositionalCalculateEndpoints_CosTwice(l) ==
  [l EXCEPT !.endX = [i \in 1..l.numRays |-> FMul(l.radius, Cos1000(RayAngle(l, i - 1)))],
            !.endY = [i \in 1..l.numRays |-> FMul(l.radius, Cos1000(RayAngle(l, i - 1)))],
            !.log = Append(l.log, "calculateEndpoints")]
PositionalCalculateEndpoints(l) ==
  [l EXCEPT !.endX = [i \in 1..l.numRays |-> FMul(l.radius, Cos1000(RayAngle(l, i - 1)))],
            !.endY = [i \in 1..l.numRays |-> FMul(l.radius, Sin1000(RayAngle(l, i - 1)))],
            !.log = Append(l.log, "calculateEndpoints")]

FloorDiv(a, b) == IF b > 0 THEN a \div b ELSE (0 - a) \div (0 - b)
CeilDiv(a, b) == 0 - FloorDiv(0 - a, b)
Max(a, b) == IF a > b THEN a ELSE b

\* DirectionalLight::calculateEndpoints
DirectionalCalculateEndpoints(l, w) ==
  LET n == l.numRays
      width == w.bounds.w
      height == w.bounds.h
      screenSize == IF width > height THEN width ELSE height
      angle == l.direction
      xAxelOffset == screenSize * Cos1000(angle)
      yAxelOffset == screenSize * Sin1000(angle)
      widthOffset == screenSize * (0 - Sin1000(angle))
      heightOffset == screenSize * Cos1000(angle)
      \* sin(0) is exactly 0; cos is never exactly 0 in floats
      widthOffsetIsZero == screenSize = 0 \/ angle = 0
      heightOffsetIsZero == screenSize = 0
      x0 == ((w.bounds.x + w.bounds.w * One) \div 2) - widthOffset
      y0 == ((w.bounds.y + w.bounds.w * One) \div 2) - heightOffset
      \* 2.0f * offset / (numRays - 1): infinite or NaN when numRays is 1
      portionX == IF n = 1 THEN NaN ELSE FloorDiv(2 * widthOffset, n - 1)
      portionY == IF n = 1 THEN NaN ELSE FloorDiv(2 * heightOffset, n - 1)
      \* floor(x / (portionX * 2)) * portionX * 2: NaN when portionX is zero
      \* or infinite; the identity (to the model's precision) when it is tiny
      x == IF n = 1 \/ widthOffsetIsZero THEN NaN
           ELSE IF portionX = 0 THEN x0
           ELSE FloorDiv(x0, portionX * 2) * portionX * 2
      y == IF n = 1 \/ heightOffsetIsZero THEN NaN
           ELSE IF portionY = 0 THEN y0
           ELSE CeilDiv(y0, portionY * 2) * portionY * 2
      stepX(i) == FAdd(FMul(i, portionX), x)
      stepY(i) == FAdd(FMul(i, portionY), y)
      len == Max(Len(l.startX), n)
  IN [l EXCEPT
        !.startX = [i \in 1..len |-> IF i <= n THEN FSub(stepX(i - 1), xAxelOffset)
                                      ELSE l.startX[i]],
        !.startY = [i \in 1..len |-> IF i <= n THEN FSub(stepY(i - 1), yAxelOffset)
                                      ELSE l.startY[i]],
        !.endX = [i \in 1..n |-> FAdd(stepX(i - 1), xAxelOffset)],
        !.endY = [i \in 1..n |-> FAdd(stepY(i - 1), yAxelOffset)],
        \* _startX and _startY keep the length DirectionalLight::init gave them
        !.oob = l.oob \/ n > l.startCap,
        !.log = Append(l.log, "calculateEndpoints")]

calculateEndpoints(l, w) ==
  IF isPositional(l) THEN PositionalCalculateEndpoints(l)
  ELSE DirectionalCalculateEndpoints(l, w)

(***************************************************************************)
(* Mesh generation                                                         *)
(***************************************************************************)
\* the raycast loop of PositionalLight::calculateLightMesh, from ray i on
RECURSIVE PositionalCastRays(_, _, _)
\* (variant: f[i], mx[i] and my[i] are not set before the raycast)
PositionalCastRays_NoDefault(l, w, i) ==
  IF i >= l.numRays THEN l
  ELSE LET tmpEnd == << FAdd(l.endX[i + 1], l.pos[1]), FAdd(l.endY[i + 1], l.pos[2]) >>
           l1 == [l EXCEPT !.m_index = i]
       IN PositionalCastRays(rayCast(l1, l.pos, tmpEnd, Cands(w, i)), w, i + 1)
PositionalCastRays(l, w, i) ==
  IF i >= l.numRays THEN l
  ELSE LET tmpEnd == << FAdd(l.endX[i + 1], l.pos[1]), FAdd(l.endY[i + 1], l.pos[2]) >>
           l1 == [l EXCEPT !.m_index = i,
                           !.f[i + 1] = One,
                           !.mx[i + 1] = tmpEnd[1],
                           !.my[i + 1] = tmpEnd[2]]
       IN PositionalCastRays(rayCast(l1, l.pos, tmpEnd, Cands(w, i)), w, i + 1)

\* PositionalLight::calculateLightMesh
\* (variant: _lightVerts and _lightIndx are not cleared first)
PositionalCalculateLightMesh_NoClear(l, w) ==
  LET l0 == [l EXCEPT !.log = Append(l.log, "calculateLightMesh")]
      l1 == IF l0.dirty THEN calculateEndpoints(l0, w) ELSE l0
      l2 == PositionalCastRays(l1, w, 0)
      n == l2.numRays
  IN [l2 EXCEPT
        !.lightVerts = l.lightVerts \o <<LightVert(l2.pos, l2.color, One)>> \o
                       [i \in 1..n |-> LightVert(<<l2.mx[i], l2.my[i]>>, l2.color,
                                                 FSub(One, l2.f[i]))],
        !.lightIndx = l.lightIndx \o <<0>> \o [i \in 1..n |-> i],
        !.log = Append(l2.log, "mesh")]
\* (variant: the index list holds a triple per ray, as the earlier
\* PointLight::calculateLightMesh() built it)
PositionalCalculateLightMesh_Triples(l, w) ==
  LET l0 == [l EXCEPT !.lightVerts = <<>>, !.lightIndx = <<>>,
                      !.log = Append(l.log, "calculateLightMesh")]
      l1 == IF l0.dirty THEN calculateEndpoints(l0, w) ELSE l0
      l2 == PositionalCastRays(l1, w, 0)
      n == l2.numRays
  IN [l2 EXCEPT
        !.lightVerts = <<LightVert(l2.pos, l2.color, One)>> \o
                       [i \in 1..n |-> LightVert(<<l2.mx[i], l2.my[i]>>, l2.color,
                                                 FSub(One, l2.f[i]))],
        !.lightIndx = [k \in 1..(3 * n) |->
                         LET i == (k - 1) \div 3
                         IN IF k % 3 = 1 THEN i + 1
                            ELSE IF k % 3 = 2 THEN (IF i = n - 1 THEN 1 ELSE i + 2)
                            ELSE 0],
        !.log = Append(l2.log, "mesh")]
PositionalCalculateLightMesh(l, w) ==
  LET l0 == [l EXCEPT !.lightVerts = <<>>, !.lightIndx = <<>>,
                      !.log = Append(l.log, "calculateLightMesh")]
      l1 == IF l0.dirty THEN calculateEndpoints(l0, w) ELSE l0
      l2 == PositionalCastRays(l1, w, 0)
      n == l2.numRays
  IN [l2 EXCEPT
        !.lightVerts = <<LightVert(l2.pos, l2.color, One)>> \o
                       [i \in 1..n |-> LightVert(<<l2.mx[i], l2.my[i]>>, l2.color,
                                                 FSub(One, l2.f[i]))],
        !.lightIndx = <<0>> \o [i \in 1..n |-> i],
        !.log = Append(l2.log, "mesh")]

\* the raycast loop of DirectionalLight::calculateLightMesh, from ray i on
RECURSIVE DirectionalCastRays(_, _, _)
DirectionalCastRays(l, w, i) ==
  IF i >= l.numRays THEN l
  ELSE LET l1 == [l EXCEPT !.m_index = i,
                           !.f[i + 1] = One,
                           !.mx[i + 1] = l.endX[i + 1],
                           !.my[i + 1] = l.endY[i + 1]]
       IN DirectionalCastRays(
            rayCast(l1, <<l.startX[i + 1], l.startY[i + 1]>>,
                    <<l.endX[i + 1], l.endY[i + 1]>>, Cands(w, i)), w, i + 1)

\* DirectionalLight::calculateLightMesh
\* (variant: the hit vertex fades with the hit fraction, as a positional rim
\* vertex does)
DirectionalCalculateLightMesh_Fades(l, w) ==
  LET l0 == [l EXCEPT !.lightVerts = <<>>, !.lightIndx = <<>>,
                      !.log = Append(l.log, "calculateLightMesh")]
      l1 == IF l0.dirty THEN calculateEndpoints(l0, w) ELSE l0
      l2 == DirectionalCastRays(l1, w, 0)
      n == l2.numRays
  IN [l2 EXCEPT
        !.lightVerts = [k \in 1..(2 * n) |->
                          IF k % 2 = 1
                          THEN LightVert(<<l2.startX[(k + 1) \div 2], l2.startY[(k + 1) \div 2]>>,
                                         l2.color, One)
                          ELSE LightVert(<<l2.mx[k \div 2], l2.my[k \div 2]>>, l2.color,
                                         FSub(One, l2.f[k \div 2]))],
        !.lightIndx = [k \in 1..(2 * n) |-> k - 1],
        !.log = Append(l2.log, "mesh")]
DirectionalCalculateLightMesh(l, w) ==
  LET l0 == [l EXCEPT !.lightVerts = <<>>, !.lightIndx = <<>>,
                      !.log = Append(l.log, "calculateLightMesh")]
      l1 == IF l0.dirty THEN calculateEndpoints(l0, w) ELSE l0
      l2 == DirectionalCastRays(l1, w, 0)
      n == l2.numRays
  IN [l2 EXCEPT
        !.lightVerts = [k \in 1..(2 * n) |->
                          IF k % 2 = 1
                          THEN LightVert(<<l2.startX[(k + 1) \div 2], l2.startY[(k + 1) \div 2]>>,
                                         l2.color, One)
                          ELSE LightVert(<<l2.mx[k \div 2], l2.my[k \div 2]>>, l2.color, One)],
        !.lightIndx = [k \in 1..(2 * n) |-> k - 1],
        !.log = Append(l2.log, "mesh")]

calculateLightMesh(l, w) ==
  IF isPositional(l) THEN PositionalCalculateLightMesh(l, w)
  ELSE DirectionalCalculateLightMesh(l, w)

(***************************************************************************)
(* Update                                                                  *)
(***************************************************************************)
\* PositionalLight::update
\* (variant: the flag is cleared without recalculating the endpoints)
PositionalUpdate_NoRecalc(l, w) == calculateLightMesh([l EXCEPT !.dirty = FALSE], w)
PositionalUpdate(l, w) ==
  LET l1 == IF l.dirty THEN calculateEndpoints(l, w) ELSE l
      l2 == [l1 EXCEPT !.dirty = FALSE]
  IN calculateLightMesh(l2, w)

\* DirectionalLight::update
DirectionalUpdate(l, w) ==
  LET l1 == IF l.dirty THEN calculateEndpoints(l, w) ELSE l
  IN calculateLightMesh(l1, w)

update(l, w) ==
  IF isPositional(l) THEN PositionalUpdate(l, w) ELSE DirectionalUpdate(l, w)

(***************************************************************************)
(* Containment query                                                       *)
(***************************************************************************)
\* one polygon edge of the crossing-number walk: from (x2, y2) to (x1, y1);
\* TRUE when the edge toggles the result for the query point (x, y), i.e.
\*   ((y1 < y) && (y2 >= y)) || ((y1 >= y) && (y2 < y))
\*   and (y - y1) / (y2 - y1) * (x2 - x1) < (x - x1)
\* (the division is exact here: both sides are multiplied by y2 - y1)
Crosses(x1, y1, x2, y2, x, y) ==
  /\ (FLt(y1, y) /\ FGe(y2, y)) \/ (FGe(y1, y) /\ FLt(y2, y))
  /\ x1 # NaN /\ x2 # NaN /\ x # NaN
  /\ IF y2 - y1 > 0
     THEN (y - y1) * (x2 - x1) < (x - x1) * (y2 - y1)
     ELSE (y - y1) * (x2 - x1) > (x - x1) * (y2 - y1)

\* the loop of PositionalLight::contains from ray i on, with (x2, y2) the
\* previous polygon vertex
RECURSIVE PositionalWalk(_, _, _, _, _, _, _)
\* (variant: the walk closes the polygon one hit point early)
PositionalWalk_OneShort(l, x, y, i, x2, y2, result) ==
  IF i > l.numRays - 1 THEN result
  ELSE LET x1 == IF i = l.numRays - 1 THEN l.pos[1] ELSE l.mx[i + 1]
           y1 == IF i = l.numRays - 1 THEN l.pos[2] ELSE l.my[i + 1]
       IN PositionalWalk(l, x, y, i + 1, x1, y1,
                         IF Crosses(x1, y1, x2, y2, x, y) THEN ~result ELSE result)
PositionalWalk(l, x, y, i, x2, y2, result) ==
  IF i > l.numRays THEN result
  ELSE LET x1 == IF i = l.numRays THEN l.pos[1] ELSE l.mx[i + 1]
           y1 == IF i = l.numRays THEN l.pos[2] ELSE l.my[i + 1]
       IN PositionalWalk(l, x, y, i + 1, x1, y1,
                         IF Crosses(x1, y1, x2, y2, x, y) THEN ~result ELSE result)

\* TRUE when the walk reads a hit slot that no raycast has written
ReadsUninit(l) == \E i \in 1..l.numRays : l.mx[i] = Uninit \/ l.my[i] = Uninit

\* PositionalLight::contains: the set of values the call can return
PositionalContains(l, x, y) ==
  LET x_d == l.pos[1] - x
      y_d == l.pos[2] - y
      dst2 == x_d * x_d + y_d * y_d
  IN IF (l.radius * One) * (l.radius * One) <= dst2 THEN {FALSE}
     ELSE IF ReadsUninit(l) THEN {TRUE, FALSE}
     ELSE {PositionalWalk(l, x, y, 0, l.pos[1], l.pos[2], FALSE)}

\* the first loop of DirectionalLight::contains from ray i on: the hit points,
\* closed with _startX[0], _startY[0]
RECURSIVE DirectionalWalkHits(_, _, _, _, _, _, _)
DirectionalWalkHits(l, x, y, i, x2, y2, result) ==
  IF i > l.numRays THEN result
  ELSE LET x1 == IF i = l.numRays THEN l.startX[1] ELSE l.mx[i + 1]
           y1 == IF i = l.numRays THEN l.startY[1] ELSE l.my[i + 1]
       IN DirectionalWalkHits(l, x, y, i + 1, x1, y1,
                              IF Crosses(x1, y1, x2, y2, x, y) THEN ~result ELSE result)

\* the second loop of DirectionalLight::contains from ray i on: the start points
RECURSIVE DirectionalWalkStarts(_, _, _, _, _, _, _)
DirectionalWalkStarts(l, x, y, i, x2, y2, result) ==
  IF i >= l.numRays THEN result
  ELSE LET x1 == l.startX[i + 1]
           y1 == l.startY[i + 1]
       IN DirectionalWalkStarts(l, x, y, i + 1, x1, y1,
                                IF Crosses(x1, y1, x2, y2, x, y) THEN ~result ELSE result)

\* TRUE when DirectionalLight::contains reads a slot that was never written,
\* or one past the end of _startX, _startY
DirectionalReadsUninit(l) ==
  \/ Len(l.startX) < l.numRays \/ Len(l.startX) = 0
  \/ \E i \in 1..l.numRays :
        \/ l.mx[i] = Uninit \/ l.my[i] = Uninit
        \/ l.startX[i] = Uninit \/ l.startY[i] = Uninit

\* DirectionalLight::contains: the set of values the call can return
DirectionalContains(l, x, y) ==
  IF DirectionalReadsUninit(l) THEN {TRUE, FALSE}
  ELSE LET afterHits == DirectionalWalkHits(l, x, y, 0, l.startX[1], l.startY[1], FALSE)
       IN {DirectionalWalkStarts(l, x, y, 0, l.startX[1], l.startY[1], afterHits)}

\* contains (virtual call)
contains(l, x, y) ==
  IF isPositional(l) THEN PositionalContains(l, x, y) ELSE DirectionalContains(l, x, y)

(***************************************************************************)
(* One light and its callers                                               *)
(***************************************************************************)
VARIABLES
  light,     \* the light object
  world,     \* the current world snapshot
  crashed,   \* the process died on an out-of-bounds access
  op,        \* the last call made on the light
  arg,       \* the argument of that call, when it is a setter
  updates,   \* update calls since the last setter call or world change (up to 2)
  pending,   \* setter calls and world changes since the last mesh build
  query,     \* the point of the last contains call
  ret,       \* what the last contains or add*Light call returned
  handler    \* the RayHandler: its lights, flat buffers and cursors

vars == <<light, world, crashed, op, arg, updates, pending, query, ret, handler>>

\* Query points of contains, as offsets from the anchor in 1/1000 world units.
QueryOffsets == {<<0, 0>>, <<0 - 300, 100>>, <<0, 0 - 2500>>, <<5000, 0 - 6000>>}

\* RayHandler::addPointLight, addConeLight, addDirectionalLight: the light is
\* allocated and its mesh calculated once in the current world
addPointLight(w, p, n, r) == calculateLightMesh(PointInit(p, n, r), w)
addConeLight(w, tree, p, n, r, dir, deg) ==
  calculateLightMesh(ConeInit(tree, p, n, r, dir, deg), w)
addDirectionalLight(w, n, dir) == calculateLightMesh(DirectionalInit(n, dir), w)

\* the light at the start of a call: the bookkeeping of the last call is dropped
Begin(l) == [l EXCEPT !.log = <<>>, !.oob = FALSE, !.wasDirty = l.dirty]

(***************************************************************************)
(* RayHandler                                                              *)
(***************************************************************************)
\* The drawing scale given to setScale.
DrawScales == {1 + 1}

\* RayHandler::init followed by setScale: no lights, cursors at zero.  Of the
\* arrays _vertData and _indxData the model keeps the slots below the cursors
\* (the only ones the code reads); oob tells that a write went past an array.
\* vbo is what the last draw call loaded into the vertex buffer, draws the
\* draw calls it made on it, appends the cursors at which the last call
\* started to copy each light.
RayHandlerInit(scale) ==
  [ lights |-> <<>>,
    vertSize |-> 0, indxSize |-> 0,
    maxVertices |-> DEFAULT_CAPACITY, maxIndices |-> 3 * DEFAULT_CAPACITY,
    vertData |-> <<>>, indxData |-> <<>>,
    scale |-> scale,
    oob |-> FALSE, vbo |-> [verts |-> <<>>, indx |-> <<>>],
    draws |-> <<>>, appends |-> <<>> ]

\* RayHandler::getLight
getLight(h, lid) == h.lights[lid + 1]

\* the two copy loops of add*Light and update: the vertices of light l,
\* scaled, and its indices are written at the cursors
CopyMesh(h, l) ==
  LET verts == l.lightVerts
      indx == l.lightIndx
      scaled == [i \in 1..Len(verts) |->
                   LightVert(<<FMul(verts[i].pos[1], h.scale), FMul(verts[i].pos[2], h.scale)>>,
                             verts[i].color, verts[i].frac)]
      allVerts == h.vertData \o scaled
      allIndx == h.indxData \o indx
  IN [h EXCEPT
        !.vertData = SubSeq(allVerts, 1, IF Len(allVerts) > h.maxVertices
                                         THEN h.maxVertices ELSE Len(allVerts)),
        !.indxData = SubSeq(allIndx, 1, IF Len(allIndx) > h.maxIndices
                                        THEN h.maxIndices ELSE Len(allIndx)),
        !.vertSize = h.vertSize + Len(verts),
        !.indxSize = h.indxSize + Len(indx),
        !.oob = h.oob \/ Len(allVerts) > h.maxVertices \/ Len(allIndx) > h.maxIndices,
        !.appends = Append(h.appends, [vertStart |-> h.vertSize, indxStart |-> h.indxSize,
                                       verts |-> Len(verts), indx |-> Len(indx)])]

\* the end of add*Light: the copy loops, then _lights.push_back(light)
\* (variant: the light is put in front of the list)
PushLight_Front(h, l) ==
  LET h1 == CopyMesh([h EXCEPT !.appends = <<>>], l)
  IN [h1 EXCEPT !.lights = <<l>> \o h.lights]
PushLight(h, l) ==
  LET h1 == CopyMesh([h EXCEPT !.appends = <<>>], l)
  IN [h1 EXCEPT !.lights = Append(h.lights, l)]

\* the loop of RayHandler::update from the k-th light on
RECURSIVE UpdateLights(_, _, _)
\* (variant: the lights are visited from the last to the first)
UpdateLights_Reversed(h, w, k) ==
  IF k > Len(h.lights) THEN h
  ELSE LET r == Len(h.lights) + 1 - k
           l == update(Begin(h.lights[r]), w)
       IN UpdateLights(CopyMesh([h EXCEPT !.lights[r] = l], l), w, k + 1)
UpdateLights(h, w, k) ==
  IF k > Len(h.lights) THEN h
  ELSE LET l == update(Begin(h.lights[k]), w)
       IN UpdateLights(CopyMesh([h EXCEPT !.lights[k] = l], l), w, k + 1)

\* RayHandler::update
RayHandlerUpdate(h, w) == UpdateLights([h EXCEPT !.appends = <<>>], w, 1)

\* the draw descriptors of RayHandler::draw from the k-th light on, with the
\* running index offset
RECURSIVE DrawLights(_, _, _)
\* (variant: index is not advanced)
DrawLights_NoAdvance(h, k, index) ==
  IF k > Len(h.lights) THEN <<>>
  ELSE LET size == Len(h.lights[k].lightIndx)
       IN << [mode |-> IF isPositional(h.lights[k]) THEN "GL_TRIANGLE_FAN"
                       ELSE "GL_TRIANGLE_STRIP",
              count |-> size, offset |-> index] >>
          \o DrawLights(h, k + 1, index)
DrawLights(h, k, index) ==
  IF k > Len(h.lights) THEN <<>>
  ELSE LET size == Len(h.lights[k].lightIndx)
       IN << [mode |-> IF isPositional(h.lights[k]) THEN "GL_TRIANGLE_FAN"
                       ELSE "GL_TRIANGLE_STRIP",
              count |-> size, offset |-> index] >>
          \o DrawLights(h, k + 1, index + size)

\* RayHandler::draw: the buffers are loaded, the cursors reset, one draw per light
RayHandlerDraw(h) ==
  [h EXCEPT !.vbo = [verts |-> h.vertData, indx |-> h.indxData],
            !.indxSize = 0, !.vertSize = 0,
            !.vertData = <<>>, !.indxData = <<>>,
            !.draws = DrawLights(h, 1, 0), !.appends = <<>>]

Init ==
  /\ world \in Worlds
  /\ \/ /\ \E p \in PosInputs, n \in NumRaysInputs, r \in RadiusInputs :
             light = addPointLight(world, p, n, r)
        /\ op = "addPointLight"
     \/ /\ \E tree \in Trees, p \in PosInputs, n \in NumRaysInputs, r \in RadiusInputs,
              dir \in DirInputs, deg \in ConeInputs :
             light = addConeLight(world, tree, p, n, r, dir, deg)
        /\ op = "addConeLight"
     \/ /\ \E n \in NumRaysInputs, dir \in DirInputs :
             light = addDirectionalLight(world, n, dir)
        /\ op = "addDirectionalLight"
  /\ crashed = FALSE
  /\ arg = 0
  /\ updates = 0
  /\ pending = 0
  /\ query = <<0, 0>>
  /\ ret = FALSE
  /\ \E scale \in DrawScales : handler = RayHandlerInit(scale)

\* a setter call
Sets(name, a, l) ==
  /\ ~crashed
  /\ pending < MaxPending
  /\ light' = l
  /\ op' = name
  /\ arg' = a
  /\ updates' = 0
  /\ pending' = pending + 1
  /\ query' = <<0, 0>>
  /\ ret' = FALSE
  /\ UNCHANGED <<world, crashed, handler>>

\* a call that builds the mesh: one that wrote outside an array either goes
\* on or kills the process
Builds(name, l) ==
  /\ ~crashed
  /\ light' = l
  /\ op' = name
  /\ arg' = 0
  /\ updates' = IF name = "update" THEN (IF updates < 2 THEN updates + 1 ELSE 2) ELSE 0
  /\ pending' = 0
  /\ query' = <<0, 0>>
  /\ ret' = FALSE
  /\ world' = world
  /\ crashed' \in (IF l.oob THEN {FALSE, TRUE} ELSE {FALSE})
  /\ handler' = handler

SetColor ==
  /\ \E c \in Colors : Sets("setColor", c, setColor(Begin(light), c))

SetNumRays ==
  /\ \E n \in NumRaysInputs : Sets("setNumRays", n, setNumRays(Begin(light), n))

SetPosition ==
  /\ \E p \in PosInputs : Sets("setPosition", p, setPosition(Begin(light), p[1], p[2]))

SetX ==
  /\ \E p \in PosInputs : Sets("setX", p[1], setX(Begin(light), p[1]))

SetY ==
  /\ \E p \in PosInputs : Sets("setY", p[2], setY(Begin(light), p[2]))

SetRadius ==
  /\ isPositional(light)
  /\ \E r \in RadiusInputs : Sets("setRadius", r, setRadius(Begin(light), r))

SetDirection ==
  /\ light.kind = "Cone"
  /\ \E dir \in DirInputs : Sets("setDirection", dir, setDirection(Begin(light), dir))

SetConeDegree ==
  /\ light.kind = "Cone"
  /\ \E deg \in ConeInputs : Sets("setConeDegree", deg, setConeDegree(Begin(light), deg))

Update == Builds("update", update(Begin(light), world))

CalculateLightMesh ==
  Builds("calculateLightMesh", calculateLightMesh(Begin(light), world))

Contains ==
  /\ ~crashed
  /\ \E d \in QueryOffsets :
       LET x == light.pos[1] + d[1]
           y == light.pos[2] + d[2]
       IN /\ query' = <<x, y>>
          /\ ret' \in contains(light, x, y)
  /\ op' = "contains"
  /\ arg' = 0
  /\ light' = Begin(light)
  /\ UNCHANGED <<world, crashed, updates, pending, handler>>

\* the obstacles of the world move
WorldChange ==
  /\ ~crashed
  /\ pending < MaxPending
  /\ \E w \in Worlds : w # world /\ world' = w
  /\ op' = "worldChange"
  /\ arg' = 0
  /\ updates' = 0
  /\ pending' = pending + 1
  /\ light' = Begin(light)
  /\ query' = <<0, 0>>
  /\ ret' = FALSE
  /\ crashed' = FALSE
  /\ handler' = handler

Next ==
  \/ SetColor
  \/ SetNumRays
  \/ SetPosition
  \/ SetX
  \/ SetY
  \/ SetRadius
  \/ SetDirection
  \/ SetConeDegree
  \/ Update
  \/ CalculateLightMesh
  \/ WorldChange

\* the callers that change and update the light
Spec == Init /\ [][Next]_vars

NextQuery ==
  \/ SetNumRays
  \/ SetPosition
  \/ SetRadius
  \/ SetDirection
  \/ Update
  \/ WorldChange
  \/ Contains

\* a registry call: name is the call, h the registry it leaves, r what it returns
Registers(name, h, r) ==
  /\ ~handler.oob
  /\ handler' = h
  /\ op' = name
  /\ ret' = r
  /\ UNCHANGED <<light, world, crashed, arg, updates, pending, query>>

\* the light a registry call has just allocated, tagged with the number of
\* add calls made before it
Tagged(l) == [serial |-> Len(handler.lights)] @@ l

AddPointLight ==
  /\ Len(handler.lights) < MaxLights
  /\ \E n \in NumRaysInputs :
       Registers("addPointLight",
                 PushLight(handler, Tagged(addPointLight(world, <<0, 0>>, n, 2))), TRUE)

AddConeLight ==
  /\ Len(handler.lights) < MaxLights
  /\ \E n \in NumRaysInputs :
       Registers("addConeLight",
                 PushLight(handler, Tagged(addConeLight(world, "b2d_lights_source", <<0, 0>>,
                                                        n, 2, 0, 90 * 100))), TRUE)

AddDirectionalLight ==
  /\ Len(handler.lights) < MaxLights
  /\ \E n \in NumRaysInputs :
       Registers("addDirectionalLight",
                 PushLight(handler, Tagged(addDirectionalLight(world, n, 180 * 100))), TRUE)

HandlerUpdate == Registers("RayHandler::update", RayHandlerUpdate(handler, world), FALSE)

Draw == Registers("draw", RayHandlerDraw(handler), FALSE)

\* no light is singled out when the registry is watched
NoLight == [kind |-> "None"]

InitHandler ==
  /\ world \in Worlds
  /\ \E scale \in DrawScales : handler = RayHandlerInit(scale)
  /\ light = NoLight
  /\ op = "init"
  /\ crashed = FALSE
  /\ arg = 0
  /\ updates = 0
  /\ pending = 0
  /\ query = <<0, 0>>
  /\ ret = FALSE

NextHandler ==
  \/ AddPointLight
  \/ AddConeLight
  \/ AddDirectionalLight
  \/ HandlerUpdate
  \/ Draw

\* the callers of the registry: lights are added, updated and drawn
SpecHandler == InitHandler /\ [][NextHandler]_vars

\* the callers that query a light between its updates
InitQuery == Init /\ light.tree = "b2d_lights_source"

SpecQuery == InitQuery /\ [][NextQuery]_vars

(***************************************************************************)
(* Properties of the dirty-flag protocol                                   *)
(***************************************************************************)
\* C1: for every light kind, when update returns the dirty flag is false;
\* if it was true on entry calculateEndpoints ran before the mesh was
\* rebuilt, and calculateLightMesh ran in either case.
C1_UpdateClearsDirty ==
  (op = "update" /\ ~crashed) =>
    /\ ~light.dirty
    /\ \E k \in 1..Len(light.log) : light.log[k] = "mesh"
    /\ light.wasDirty => Len(light.log) > 0 /\ light.log[1] = "calculateEndpoints"

\* C2 (as stated): each of setNumRays, setRadius, setDirection, setConeDegree,
\* setPosition, setX and setY leaves the dirty flag true on return.
C2_EverySetterMarksDirty ==
  op \in {"setNumRays", "setRadius", "setDirection", "setConeDegree",
          "setPosition", "setX", "setY"} => light.dirty

\* C2 (amended): setNumRays, setRadius, setDirection and setConeDegree leave
\* the dirty flag true on return whatever it was before; setPosition, setX and
\* setY leave the flag as they found it.
C2_ShapeSettersMarkDirty ==
  /\ op \in {"setNumRays", "setRadius", "setDirection", "setConeDegree"} => light.dirty
  /\ op \in {"setPosition", "setX", "setY"} => light.dirty = light.wasDirty

\* a clean light was made dirty by setRadius
C2_Witness == op = "setRadius" /\ ~light.wasDirty /\ light.dirty

C4_UpdateIdempotent ==
  [][ (op = "update" /\ ~crashed /\ op' = "update" /\ ~crashed') =>
        light'.lightVerts = light.lightVerts /\ light'.lightIndx = light.lightIndx
    ]_vars

\* a second update in a row has returned on a light with a mesh
C4_Witness ==
  op = "update" /\ updates = 2 /\ ~crashed /\ light.numRays >= 3 /\ Len(light.lightVerts) > 3

(***************************************************************************)
(* Properties of the containment query                                     *)
(***************************************************************************)
\* C5: for a positional light with radius > 0 whose mesh is up to date,
\* contains(anchor) returns true (stated here for cone lights with at least
\* 3 rays and an arc above the 0.01 degree floor).
C5_AnchorContained ==
  ( /\ op = "contains" /\ query = light.pos /\ pending = 0
    /\ light.kind = "Cone" /\ light.radius > 0
    /\ light.numRays >= 3 /\ light.coneDegree > 1 ) => ret = TRUE

\* C6: for a positional light and a query point farther from the anchor than
\* the light's radius, contains returns false whatever hit points are stored
\* (stated here for lights with at least 3 rays).
C6_FarPointOutside ==
  LET x_d == light.pos[1] - query[1]
      y_d == light.pos[2] - query[2]
      dst2 == x_d * x_d + y_d * y_d
  IN ( /\ op = "contains" /\ isPositional(light) /\ light.numRays >= 3
       /\ light.radius < 0 \/ dst2 > (light.radius * One) * (light.radius * One) )
     => ret = FALSE

(***************************************************************************)
(* Properties of the mesh                                                  *)
(***************************************************************************)
\* C7 (as stated): for a PointLight updated in a world with no obstructions,
\* every vertex of the mesh has attenuation 1.0 and every hit point lies on
\* the circle of the given radius around the anchor (to 1 per cent of the
\* squared radius).
C7_AllAttenuationOne ==
  ( /\ op = "update" /\ ~crashed /\ light.kind = "Point"
    /\ world.profile = "clear" /\ light.numRays >= 3 ) =>
    /\ \A k \in 1..Len(light.lightVerts) : light.lightVerts[k].frac = One
    /\ \A i \in 1..light.numRays :
         LET dx == light.mx[i] - light.pos[1]
             dy == light.my[i] - light.pos[2]
             r2 == (light.radius * One) * (light.radius * One)
             d2 == dx * dx + dy * dy
         IN (d2 - r2) * 100 <= r2 /\ (r2 - d2) * 100 <= r2

\* C7 (amended): for a PointLight updated in a world with no obstructions,
\* the centroid has attenuation 1.0 and every rim vertex has attenuation 0.0;
\* unless numRays is 1, every hit point lies on the circle of the given
\* radius around the anchor (to 1 per cent of the squared radius).
C7_RimAttenuationZero ==
  ( /\ op = "update" /\ ~crashed /\ light.kind = "Point"
    /\ world.profile = "clear" ) =>
    /\ Len(light.lightVerts) = light.numRays + 1
    /\ light.lightVerts[1].frac = One
    /\ \A k \in 2..Len(light.lightVerts) : light.lightVerts[k].frac = 0
    /\ light.numRays # 1 =>
         \A i \in 1..light.numRays :
           LET dx == light.mx[i] - light.pos[1]
               dy == light.my[i] - light.pos[2]
               r2 == (light.radius * One) * (light.radius * One)
               d2 == dx * dx + dy * dy
           IN /\ light.lightVerts[i + 1].pos = <<light.mx[i], light.my[i]>>
              /\ (d2 - r2) * 100 <= r2 /\ (r2 - d2) * 100 <= r2

\* a point light of positive radius was updated in a world with no obstructions
C7_Witness ==
  /\ op = "update" /\ ~crashed /\ light.kind = "Point" /\ world.profile = "clear"
  /\ light.numRays >= 3 /\ light.radius > 0 /\ Len(light.lightVerts) = light.numRays + 1

(***************************************************************************)
(* Properties of the input handling                                        *)
(***************************************************************************)
\* C8: in every reachable state the light has numRays >= 3: add*Light and
\* setNumRays reject a smaller value or clamp it to at least 3.
C8_NumRaysAtLeastThree == light.numRays >= 3

\* C9: after setConeDegree(d) on a cone light, getConeDegree() is d when
\* d > 0.01 and 0.01 otherwise, and the dirty flag is true.
C9_ConeDegreeClamped ==
  op = "setConeDegree" =>
    /\ getConeDegree(light) = (IF arg > 1 THEN arg ELSE 1)
    /\ light.dirty

\* C10: a positional light whose radius is <= 0 has, when update returns, all
\* its rim vertices at the anchor (stated here for lights with at least 3
\* rays).
C10_NonPositiveRadiusDegenerate ==
  ( /\ op = "update" /\ ~crashed /\ isPositional(light)
    /\ light.radius <= 0 /\ light.numRays >= 3 ) =>
    \A k \in 1..Len(light.lightVerts) : light.lightVerts[k].pos = light.pos

(***************************************************************************)
(* Properties of the registry                                              *)
(***************************************************************************)
\* C11: after any sequence of add*Light, update and draw calls the vertex
\* cursor is at most maxVertices and the index cursor at most maxIndices, and
\* nothing was written past the end of the flat arrays.
C11_WithinCapacity ==
  /\ handler.vertSize <= handler.maxVertices
  /\ handler.indxSize <= handler.maxIndices
  /\ ~handler.oob

\* C12 (as stated): each add*Light call returns an id such that getLight(id)
\* is the light created by that call (the value returned is true, which is 1
\* as an int).
C12_AddReturnsHandle ==
  op \in {"addPointLight", "addConeLight", "addDirectionalLight"} =>
    LET id == IF ret THEN 1 ELSE 0
    IN /\ id < Len(handler.lights)
       /\ getLight(handler, id).serial = Len(handler.lights) - 1

\* C12 (amended): each add*Light call returns true and puts the light it
\* created at the end of the list: the k-th added light (0-based) is
\* getLight(k), and earlier lights keep their ids.
C12_InsertionIndex ==
  /\ \A k \in 0..(Len(handler.lights) - 1) : getLight(handler, k).serial = k
  /\ op \in {"addPointLight", "addConeLight", "addDirectionalLight"} =>
       ret = TRUE /\ Len(handler.lights) >= 1

\* a second light was added behind a light of another kind
C12_Witness ==
  /\ op = "addConeLight" /\ Len(handler.lights) = 2
  /\ getLight(handler, 0).kind = "Point" /\ getLight(handler, 1).kind = "Cone"

\* C13: when a light's mesh is appended to the flat buffers, in add*Light and
\* in update, every index written is the light-local index plus the vertex
\* cursor at the start of that light's append.
C13_IndicesOffsetByCursor ==
  ( /\ op \in {"addPointLight", "addConeLight", "addDirectionalLight", "RayHandler::update"}
    /\ ~handler.oob ) =>
    \A k \in 1..Len(handler.appends) :
      LET a == handler.appends[k]
          l == IF op = "RayHandler::update" THEN handler.lights[k]
               ELSE handler.lights[Len(handler.lights)]
      IN \A j \in 1..a.indx :
           handler.indxData[a.indxStart + j] = l.lightIndx[j] + a.vertStart

\* C14: draw emits one draw per light, in insertion order: a fan iff the
\* light is positional and a strip otherwise, count the length of the light's
\* index list, offset the sum of the counts of the lights before it.
C14_OneDrawPerLight ==
  op = "draw" =>
    /\ Len(handler.draws) = Len(handler.lights)
    /\ \A k \in 1..Len(handler.draws) :
         LET d == handler.draws[k]
         IN /\ d.mode = "GL_TRIANGLE_FAN" <=> handler.lights[k].kind \in {"Point", "Cone"}
            /\ d.mode = "GL_TRIANGLE_STRIP" <=> handler.lights[k].kind = "Directional"
            /\ d.count = Len(handler.lights[k].lightIndx)
            /\ d.offset = IF k = 1 THEN 0
                          ELSE handler.draws[k - 1].offset + handler.draws[k - 1].count

\* a positional and a directional light were drawn, the second at an offset
C14_Witness ==
  /\ op = "draw" /\ Len(handler.lights) = 2
  /\ handler.lights[1].kind = "Point" /\ handler.lights[2].kind = "Directional"
  /\ Len(handler.draws) = 2 /\ handler.draws[2].offset > 0 /\ handler.draws[2].count > 0

\* C15: the vertex and index cursors are zero at the start of every
\* RayHandler::update call, so that after it they are the sums of the lights'
\* vertex and index counts.
C15_CursorsZeroAtUpdate ==
  (op = "RayHandler::update" /\ ~handler.oob /\ Len(handler.appends) >= 1) =>
    /\ handler.appends[1].vertStart = 0
    /\ handler.appends[1].indxStart = 0

(***************************************************************************)
(* Properties of the light's arrays                                        *)
(***************************************************************************)
\* C16: whenever the light's dirty flag is false, the endpoint cache, the
\* hit-point arrays, the hit-fraction array and the vertex list minus the
\* centroid vertex all have exactly numRays entries.
C16_ArraysHaveNumRays ==
  ~light.dirty =>
    /\ Len(light.endX) = light.numRays /\ Len(light.endY) = light.numRays
    /\ Len(light.mx) = light.numRays /\ Len(light.my) = light.numRays
    /\ Len(light.f) = light.numRays
    /\ Len(light.lightVerts) - 1 = light.numRays

\* a light that was dirty has been updated and is clean
C16_Witness ==
  /\ op = "update" /\ ~light.dirty /\ light.wasDirty
  /\ light.numRays = MaxRays /\ Len(light.lightVerts) = MaxRays + 1

(***************************************************************************)
(* Properties of the ray geometry                                          *)
(***************************************************************************)
\* C17: for a cone light with arc d and direction dir the ray angles
\* dir + d/2 - d*i/(numRays-1), i in [0, numRays), are strictly decreasing in
\* i, the first minus the last is d, and for odd numRays the middle ray
\* points at dir (arcs at the 0.01 degree floor, which the model's angles
\* cannot divide, are left out).
C17_ConeAnglesSpanArc ==
  (light.kind = "Cone" /\ light.coneDegree # 1) =>
    LET n == light.numRays
    IN /\ \A i \in 0..(n - 2) : FLt(ConeAngle(light, i + 1), ConeAngle(light, i))
       /\ n >= 1 => FSub(ConeAngle(light, 0), ConeAngle(light, n - 1)) = light.coneDegree
       /\ n % 2 = 1 => ConeAngle(light, (n - 1) \div 2) = light.direction

\* C18: for a directional light contains(x, y) is true exactly for the points
\* inside the closed polygon start[0], hit[0], ..., hit[numRays-1],
\* start[numRays-1], ..., start[0] (even-odd rule), for query points not at a
\* vertex height (stated here for lights with at least 3 rays whose arrays
\* are all written).
C18_DirectionalPolygon ==
  ( /\ op = "contains" /\ light.kind = "Directional" /\ light.numRays >= 3
    /\ ~DirectionalReadsUninit(light)
    /\ \A i \in 1..light.numRays :
         /\ IsNum(light.mx[i]) /\ IsNum(light.my[i])
         /\ IsNum(light.startX[i]) /\ IsNum(light.startY[i])
         /\ light.my[i] # query[2] /\ light.startY[i] # query[2] ) =>
    LET n == light.numRays
        x == query[1]
        y == query[2]
        hitEdges == {i \in 1..(n - 1) :
                       Crosses(light.mx[i + 1], light.my[i + 1], light.mx[i], light.my[i], x, y)}
        startEdges == {i \in 1..(n - 1) :
                         Crosses(light.startX[i], light.startY[i],
                                 light.startX[i + 1], light.startY[i + 1], x, y)}
        first == IF Crosses(light.mx[1], light.my[1], light.startX[1], light.startY[1], x, y)
                 THEN 1 ELSE 0
        last == IF Crosses(light.startX[n], light.startY[n], light.mx[n], light.my[n], x, y)
                THEN 1 ELSE 0
    IN ret = ((Cardinality(hitEdges) + Cardinality(startEdges) + first + last) % 2 = 1)

\* C19: for a directional light with direction 0, 45 or 90 degrees in a world
\* of positive width and height, calculateEndpoints yields a finite start and
\* end point for every ray, with end - start the same vector
\* 2 * max(W, H) * (cos, sin) for every ray (stated here for lights with at
\* least 3 rays, after a mesh build).
C19_DirectionalEndpointsFinite ==
  ( /\ light.kind = "Directional" /\ light.direction \in {0, 45 * 100, 90 * 100}
    /\ light.numRays >= 3 /\ ~crashed /\ pending = 0
    /\ world.bounds.w > 0 /\ world.bounds.h > 0 ) =>
    LET size == IF world.bounds.w > world.bounds.h THEN world.bounds.w ELSE world.bounds.h
    IN \A i \in 1..light.numRays :
         /\ IsNum(light.startX[i]) /\ IsNum(light.startY[i])
         /\ IsNum(light.endX[i]) /\ IsNum(light.endY[i])
         /\ light.endX[i] - light.startX[i] = 2 * size * Cos1000(light.direction)
         /\ light.endY[i] - light.startY[i] = 2 * size * Sin1000(light.direction)

\* C20: after calculateLightMesh on a positional light the vertex list has
\* numRays + 1 entries: vertex 0 is the anchor with attenuation 1.0, vertex
\* i + 1 is at hit point i with attenuation 1 - hitFraction_i, a ray with no
\* obstruction has hit point anchor + local endpoint i and hit fraction 1.0,
\* and all vertices carry the light's current color.
C20_PositionalMeshShape ==
  ( /\ op \in {"addPointLight", "addConeLight", "calculateLightMesh", "update"}
    /\ isPositional(light) /\ ~crashed ) =>
    /\ Len(light.lightVerts) = light.numRays + 1
    /\ light.lightVerts[1] = LightVert(light.pos, light.color, One)
    /\ \A i \in 1..light.numRays :
         /\ light.lightVerts[i + 1] =
              LightVert(<<light.mx[i], light.my[i]>>, light.color, FSub(One, light.f[i]))
         /\ Cands(world, i - 1) = <<>> =>
              /\ light.mx[i] = FAdd(light.endX[i], light.pos[1])
              /\ light.my[i] = FAdd(light.endY[i], light.pos[2])
              /\ light.f[i] = One

\* a recoloured positional light was updated in a world that obstructs one
\* of its rays and leaves the others clear
C20_Witness ==
  /\ op = "update" /\ isPositional(light) /\ ~crashed
  /\ light.numRays = MaxRays /\ light.color = "RED" /\ world.profile = "odd"
  /\ light.f[2] # One /\ light.f[1] = One /\ light.radius > 0

\* C21 (as stated): after calculateLightMesh on a positional light the index
\* list holds one triple per ray i: the rim vertex i + 1, the next rim vertex
\* (i + 2, or 1 for the last ray) and the centroid 0: 3 * numRays indices.
C21_TriplePerRay ==
  ( /\ op \in {"addPointLight", "addConeLight", "calculateLightMesh", "update"}
    /\ isPositional(light) /\ ~crashed ) =>
    LET n == light.numRays
    IN /\ Len(light.lightIndx) = 3 * n
       /\ \A i \in 0..(n - 1) :
            /\ light.lightIndx[3 * i + 1] = i + 1
            /\ light.lightIndx[3 * i + 2] = (IF i = n - 1 THEN 1 ELSE i + 2)
            /\ light.lightIndx[3 * i + 3] = 0

\* C21 (amended): after calculateLightMesh on a positional light the index
\* list is 0, 1, ..., numRays: the centroid, then every rim vertex once, in
\* ray order (numRays + 1 indices, one per vertex, the list of a triangle
\* fan).
C21_FanIndexList ==
  ( /\ op \in {"addPointLight", "addConeLight", "calculateLightMesh", "update"}
    /\ isPositional(light) /\ ~crashed ) =>
    /\ Len(light.lightIndx) = light.numRays + 1
    /\ Len(light.lightIndx) = Len(light.lightVerts)
    /\ \A k \in 1..Len(light.lightIndx) : light.lightIndx[k] = k - 1

\* the mesh of a positional light with the largest ray count was rebuilt by
\* calculateLightMesh
C21_Witness ==
  /\ op = "calculateLightMesh" /\ isPositional(light) /\ ~crashed
  /\ light.numRays = MaxRays /\ Len(light.lightIndx) = MaxRays + 1

\* C22: after calculateLightMesh on a directional light the vertex list has
\* 2 * numRays entries, vertex 2i is start point i and vertex 2i + 1 is hit
\* point i of the same ray, every vertex has attenuation 1.0 whatever the hit
\* fraction, and the index list is 0, 1, ..., 2 * numRays - 1.
C22_DirectionalMeshShape ==
  ( /\ op \in {"addDirectionalLight", "calculateLightMesh", "update"}
    /\ light.kind = "Directional" /\ ~crashed ) =>
    LET n == light.numRays
    IN /\ Len(light.lightVerts) = 2 * n
       /\ \A i \in 0..(n - 1) :
            /\ light.lightVerts[2 * i + 1] =
                 LightVert(<<light.startX[i + 1], light.startY[i + 1]>>, light.color, One)
            /\ light.lightVerts[2 * i + 2] =
                 LightVert(<<light.mx[i + 1], light.my[i + 1]>>, light.color, One)
       /\ Len(light.lightIndx) = 2 * n
       /\ \A k \in 1..(2 * n) : light.lightIndx[k] = k - 1

\* a directional light was updated in a world that stops its second ray
\* half way
C22_Witness ==
  /\ op = "update" /\ light.kind = "Directional" /\ ~crashed
  /\ light.numRays = MaxRays /\ world.profile = "odd"
  /\ light.f[2] # One /\ IsNum(light.mx[2]) /\ light.mx[2] # light.endX[2]
  /\ light.lightVerts[4].frac = One

\* C23: for every ray i of one calculateLightMesh pass, whatever the order and
\* number of candidates the port reports to the callback (the port clipping
\* the ray to the fraction the callback returns), the value stored for ray i is
\* the point and fraction of the candidate with the smallest fraction; it is
\* stored in slot i only: the slot of a ray with no candidate holds its target
\* and fraction 1.0 after the queries of all other rays.
C23_NearestCandidateStored ==
  ( /\ op \in {"addPointLight", "addConeLight", "addDirectionalLight",
               "calculateLightMesh", "update"}
    /\ ~crashed ) =>
    \A i \in 1..light.numRays :
      LET p1 == IF isPositional(light) THEN light.pos
                ELSE <<light.startX[i], light.startY[i]>>
          p2 == IF isPositional(light)
                THEN <<FAdd(light.endX[i], light.pos[1]), FAdd(light.endY[i], light.pos[2])>>
                ELSE <<light.endX[i], light.endY[i]>>
          cands == Cands(world, i - 1)
          nearest == CHOOSE m \in {cands[k] : k \in 1..Len(cands)} :
                       \A k \in 1..Len(cands) : m <= cands[k]
      IN IF cands = <<>>
         THEN light.f[i] = One /\ <<light.mx[i], light.my[i]>> = p2
         ELSE /\ light.f[i] = nearest
              /\ <<light.mx[i], light.my[i]>> = HitPoint(p1, p2, nearest)

\* the port found the nearer of two obstacles first and the callback was not
\* called for the farther one; the rays before and after keep their targets
C23_Witness ==
  /\ op = "update" /\ ~crashed /\ light.kind = "Point" /\ light.numRays = 3
  /\ light.radius > 0
  /\ world.profile = "odd" /\ world.cands = <<One \div 4, One \div 2>>
  /\ light.f = <<One, One \div 4, One>>

\* C24: PointLight::calculateEndpoints generates ray i at angle
\* i * 360 / (numRays - 1) degrees and distance radius from the local origin,
\* so that ray 0 and ray numRays - 1 have the same endpoint; for numRays = 4
\* the angles are 0, 120, 240, 360.
C24_PointRaysCloseFan ==
  /\ (light.kind = "Point" /\ ~light.dirty /\ ~crashed) =>
       LET n == light.numRays
       IN /\ \A i \in 0..(n - 1) :
               /\ IsNum(light.endX[i + 1]) /\ IsNum(light.endY[i + 1])
               /\ n > 1 =>
                    /\ light.endX[i + 1] = light.radius * Cos1000((36000 * i) \div (n - 1))
                    /\ light.endY[i + 1] = light.radius * Sin1000((36000 * i) \div (n - 1))
          /\ light.endX[1] = light.endX[n] /\ light.endY[1] = light.endY[n]
  /\ LET four == PointInit(<<0, 0>>, 4, 2)
     IN [i \in 0..3 |-> PointAngle(four, i)] =
          [i \in 0..3 |-> IF i = 0 THEN 0 ELSE IF i = 1 THEN 120 * 100
                           ELSE IF i = 2 THEN 240 * 100 ELSE 360 * 100]

\* C25: for a positional light and a query point strictly closer to the
\* anchor than radius and not at a vertex height, contains(x, y) is the
\* even-odd point-in-polygon result for the closed polygon anchor, hit[0],
\* ..., hit[numRays-1], anchor (stated here for lights whose hit points have
\* all been written and are numbers).
C25_PositionalEvenOdd ==
  LET n == light.numRays
      x == query[1]
      y == query[2]
      x_d == light.pos[1] - x
      y_d == light.pos[2] - y
  IN ( /\ op = "contains" /\ isPositional(light) /\ light.radius > 0
       /\ x_d * x_d + y_d * y_d < (light.radius * One) * (light.radius * One)
       /\ ~ReadsUninit(light)
       /\ light.pos[2] # y
       /\ \A i \in 1..n : IsNum(light.mx[i]) /\ IsNum(light.my[i]) /\ light.my[i] # y ) =>
       LET rimEdges == {i \in 1..(n - 1) :
                          Crosses(light.mx[i + 1], light.my[i + 1],
                                  light.mx[i], light.my[i], x, y)}
           first == IF Crosses(light.mx[1], light.my[1], light.pos[1], light.pos[2], x, y)
                    THEN 1 ELSE 0
           last == IF Crosses(light.pos[1], light.pos[2], light.mx[n], light.my[n], x, y)
                   THEN 1 ELSE 0
       IN ret = ((Cardinality(rimEdges) + first + last) % 2 = 1)

\* a point inside the polygon of an updated cone light was found inside
C25_Witness ==
  /\ op = "contains" /\ light.kind = "Cone" /\ light.numRays = MaxRays
  /\ pending = 0 /\ light.radius > 0 /\ ~ReadsUninit(light)
  /\ query # light.pos /\ query[2] # light.pos[2] /\ ret = TRUE

\* C26: in a frame made of one RayHandler::update followed by one draw, with
\* the cursors at zero before the update, the segment
\* [offset_i, offset_i + count_i) of the index buffer named by the draw
\* descriptor of light i holds exactly the indices packed for light i, for
\* every light: packing and drawing visit the lights in the same order.
C26_DrawSegmentsMatchPacking ==
  [][ ( /\ op = "RayHandler::update" /\ op' = "draw"
        /\ Len(handler.appends) >= 1
        /\ handler.appends[1].vertStart = 0 /\ handler.appends[1].indxStart = 0 ) =>
        /\ handler'.vbo.indx = handler.indxData
        /\ \A k \in 1..Len(handler.lights) :
             LET d == handler'.draws[k]
             IN /\ d.offset = handler.appends[k].indxStart
                /\ d.count = handler.appends[k].indx
                /\ SubSeq(handler'.vbo.indx, d.offset + 1, d.offset + d.count)
                     = handler.lights[k].lightIndx
    ]_vars

\* two lights with index lists of different lengths were updated, packed from
\* cursor zero and drawn
C26_Witness ==
  /\ op = "draw" /\ Len(handler.lights) = 2 /\ ~handler.lights[2].dirty
  /\ handler.lights[1].kind = "Directional" /\ handler.lights[2].kind = "Cone"
  /\ Len(handler.lights[1].lightIndx) # Len(handler.lights[2].lightIndx)
  /\ Len(handler.vbo.indx) =
       Len(handler.lights[1].lightIndx) + Len(handler.lights[2].lightIndx)
  /\ handler.draws[2].offset = Len(handler.lights[1].lightIndx)

\* C27: calculateEndpoints runs at most once between two consecutive dirtying
\* events (construction or a geometry-changing setter): a call of update or
\* calculateLightMesh computes the endpoints at most once, and one that
\* follows an add*Light, update or calculateLightMesh call with no setter in
\* between does not compute them.
C27_EndpointsCached ==
  [][ (op' \in {"update", "calculateLightMesh"} /\ ~crashed') =>
        LET runs == {k \in 1..Len(light'.log) : light'.log[k] = "calculateEndpoints"}
        IN /\ Cardinality(runs) <= 1
           /\ op \in {"addPointLight", "addConeLight", "addDirectionalLight",
                       "update", "calculateLightMesh"} => runs = {}
    ]_vars

\* C28: setConeDegree changes only the cone arc and the dirty flag:
\* getDirection(), radius, numRays, color and anchor position are the same
\* after the call as before it.
C28_SetConeDegreeFrame ==
  [][ op' = "setConeDegree" =>
        /\ getDirection(light') = getDirection(light)
        /\ light'.radius = light.radius
        /\ light'.numRays = light.numRays
        /\ light'.color = light.color
        /\ light'.pos = light.pos
    ]_vars

\* C29: after any sequence of setNumRays and update calls on any light kind,
\* every read or write of the per-ray arrays uses an index below the array's
\* allocated length; a directional light's start-point arrays are large
\* enough for the current numRays after setNumRays raises it.
C29_ArrayAccessInBounds ==
  /\ ~light.oob
  /\ (light.kind = "Directional" /\ op \in {"setNumRays", "update"}) =>
       light.startCap >= light.numRays

\* C30: contains only reads hit points written by the most recent
\* calculateLightMesh for the current numRays: a contains call made after a
\* setter and before the next update evaluates against the complete
\* hit-point set of the last built mesh, never against unwritten hit slots.
C30_ContainsReadsBuiltHits ==
  LET x_d == light.pos[1] - query[1]
      y_d == light.pos[2] - query[2]
      \* the call got past the distance check and walked the hit points
      walked == isPositional(light) =>
                  (light.radius * One) * (light.radius * One) > x_d * x_d + y_d * y_d
  IN (op = "contains" /\ walked) =>
    /\ Len(light.mx) = Len(light.lightVerts) - (IF isPositional(light) THEN 1 ELSE light.numRays)
    /\ \A i \in 1..light.numRays :
         /\ light.mx[i] # Uninit /\ light.my[i] # Uninit
         /\ isPositional(light) => light.lightVerts[i + 1].pos = <<light.mx[i], light.my[i]>>

====
